---------------------------- MODULE Spec2Model ----------------------------
(***************************************************************************)
(* Model of scripts/validate_commit_msg.py: the CommitMessageValidator     *)
(* class, its four validation stages, validate_commit_message, and the     *)
(* command-line entry point main().                                        *)
(*                                                                         *)
(* A Python str is a sequence of one-character strings.  Four characters   *)
(* are written by name: "LF" is '\n', "TAB" is '\t'; "U+0130" is the       *)
(* capital I with a dot, "U+0131" the dotless i, "U+017F" the long s and   *)
(* "U+212A" the Kelvin sign.  These four are the non-ASCII characters that *)
(* Python's re module matches against the class [a-z] under re.IGNORECASE  *)
(* (the first two against a literal i, the third against s, the fourth     *)
(* against k).  str.lower() leaves U+0131 and U+017F unchanged, turns      *)
(* U+212A into k, and turns U+0130 into i followed by the combining dot    *)
(* "U+0307".                                                               *)
(***************************************************************************)
EXTENDS Integers, Sequences, FiniteSets, TLC

VARIABLES
    errors,          \* errors[i]: self.errors of validator instance i
    warnings,        \* warnings[i]: self.warnings of validator instance i
    inst,            \* inst[t]: the instance caller t calls (its self)
    pc,              \* pc[t]: the line of validate_commit_message caller t is at
    message,         \* message[t]: the argument of caller t's current call
    format_ok,       \* the four locals of validate_commit_message, per caller
    type_scope_ok,
    body_footer_ok,
    quality_ok,
    result,          \* result[t]: what caller t's last call returned
    stale,           \* history: stale[t] holds when caller t's current call found
                     \* entries of an earlier call in self.errors or self.warnings
    overlapped,      \* history: two callers have been inside a call at once
    argv,            \* sys.argv of the process running main()
    path_exists,     \* os.path.exists(sys.argv[1]), sys.argv[1] being argv[2] here
    file_data,       \* what the file at sys.argv[1] holds
    stdin_tty,       \* sys.stdin.isatty()
    stdin_data,      \* what standard input holds
    main_pc,         \* the line of main() the process is at
    main_message,    \* main's local message
    exit_code        \* the argument of sys.exit, -1 while running

vars == <<errors, warnings, inst, pc, message, format_ok, type_scope_ok,
          body_footer_ok, quality_ok, result, stale, overlapped, argv,
          path_exists, file_data,
          stdin_tty, stdin_data, main_pc, main_message, exit_code>>

callVars == <<errors, warnings, inst, pc, message, format_ok, type_scope_ok,
              body_footer_ok, quality_ok, result, stale, overlapped>>

cliVars == <<argv, path_exists, file_data, stdin_tty, stdin_data, main_pc,
             main_message, exit_code>>

(***************************************************************************)
(* Characters and the str methods the validator uses.                      *)
(***************************************************************************)
NL == "LF"

TAB == "TAB"

DOTTED_I == "U+0130"

COMBINING_DOT == "U+0307"

DOTLESS_I == "U+0131"

LONG_S == "U+017F"

KELVIN_SIGN == "U+212A"

Lowers == <<"a", "b", "c", "d", "e", "f", "g", "h", "i", "j", "k", "l", "m", "n", "o", "p", "q", "r", "s", "t", "u", "v", "w", "x", "y", "z">>

Uppers == <<"A", "B", "C", "D", "E", "F", "G", "H", "I", "J", "K", "L", "M", "N", "O", "P", "Q", "R", "S", "T", "U", "V", "W", "X", "Y", "Z">>

Digits == {"0", "1", "2", "3", "4", "5", "6", "7", "8", "9"}

Whitespace == {" ", NL, TAB}

Range(s) == {s[i] : i \in 1..Len(s)}

LowerSet == Range(Lowers)

UpperSet == Range(Uppers)

\* the lowercase letter of each uppercase letter
ToLower == [c \in UpperSet |-> Lowers[CHOOSE i \in 1..Len(Uppers) : Uppers[i] = c]]

\* 'a' * n
Rep(c, n) == [i \in 1..n |-> c]

\* str.isupper() of one character
IsUpper(c) == c \in UpperSet \/ c \in {DOTTED_I, KELVIN_SIGN}

\* the lowercase of one character where it is one character: what the re
\* module compares under re.IGNORECASE, and str.lower() of every character
\* but U+0130
LowerChar(c) ==
    IF c \in UpperSet THEN ToLower[c]
    ELSE IF c = KELVIN_SIGN THEN "k"
    ELSE IF c = DOTTED_I THEN "i"
    ELSE c

RECURSIVE LowerFull(_)
\* str.lower() of a string that holds U+0130, which becomes two characters
LowerFull(s) ==
    IF s = <<>> THEN <<>>
    ELSE (IF Head(s) = DOTTED_I THEN <<"i", COMBINING_DOT>>
          ELSE <<LowerChar(Head(s))>>) \o LowerFull(Tail(s))

\* str.lower()
Lower(s) ==
    IF \A i \in 1..Len(s) : s[i] # DOTTED_I
    THEN [i \in 1..Len(s) |-> LowerChar(s[i])]
    ELSE LowerFull(s)

\* str.strip()
Strip(s) ==
    IF \A i \in 1..Len(s) : s[i] \in Whitespace THEN <<>>
    ELSE SubSeq(s,
                CHOOSE i \in 1..Len(s) :
                    s[i] \notin Whitespace /\ \A j \in 1..(i - 1) : s[j] \in Whitespace,
                CHOOSE i \in 1..Len(s) :
                    s[i] \notin Whitespace /\ \A j \in (i + 1)..Len(s) : s[j] \in Whitespace)

RECURSIVE SplitLines(_)
\* str.split('\n'): never empty, ''.split('\n') is ['']
SplitLines(s) ==
    IF \A i \in 1..Len(s) : s[i] # NL THEN <<s>>
    ELSE LET i == CHOOSE k \in 1..Len(s) :
                      s[k] = NL /\ \A j \in 1..(k - 1) : s[j] # NL
         IN  <<SubSeq(s, 1, i - 1)>> \o SplitLines(SubSeq(s, i + 1, Len(s)))

\* str.split() with no argument, then [0]; '' when there is no word
FirstWord(s) ==
    LET t == Strip(s)
    IN  IF \A i \in 1..Len(t) : t[i] \notin Whitespace THEN t
        ELSE SubSeq(t, 1, (CHOOSE k \in 1..Len(t) :
                               /\ t[k] \in Whitespace
                               /\ \A j \in 1..(k - 1) : t[j] \notin Whitespace) - 1)

\* s[p:p+len(sub)] == sub, p counted from 0 as in Python
HasAt(s, sub, p) ==
    /\ p >= 0
    /\ p + Len(sub) <= Len(s)
    /\ \A i \in 1..Len(sub) : s[p + i] = sub[i]

\* str.find(sub): the lowest index, from 0, or -1
Find(s, sub) ==
    IF \A p \in 0..Len(s) : ~HasAt(s, sub, p) THEN -1
    ELSE CHOOSE p \in 0..Len(s) :
             HasAt(s, sub, p) /\ \A q \in 0..(p - 1) : ~HasAt(s, sub, q)

\* str.endswith(c) for one character
EndsWith(s, c) == Len(s) > 0 /\ s[Len(s)] = c

\* ' '.join(args)
RECURSIVE Join(_)
Join(args) ==
    IF args = <<>> THEN <<>>
    ELSE IF Len(args) = 1 THEN args[1]
    ELSE args[1] \o <<" ">> \o Join(Tail(args))

(***************************************************************************)
(* The rule tables.                                                        *)
(***************************************************************************)
\* the alternation of validate_format's pattern, in its order
TypeAlternation ==
    << <<"f", "e", "a", "t">>, <<"f", "i", "x">>, <<"d", "o", "c", "s">>, <<"s", "t", "y", "l", "e">>, <<"r", "e", "f", "a", "c", "t", "o", "r">>, <<"p", "e", "r", "f">>, <<"t", "e", "s", "t">>,
       <<"b", "u", "i", "l", "d">>, <<"c", "i">>, <<"c", "h", "o", "r", "e">>, <<"r", "e", "v", "e", "r", "t">>, <<"s", "e", "c", "u", "r", "i", "t", "y">>, <<"d", "e", "p", "s">>, <<"r", "e", "m", "o", "v", "e">> >>

\* the keys of VALID_TYPES
VALID_TYPES ==
    { <<"f", "e", "a", "t">>, <<"f", "i", "x">>, <<"d", "o", "c", "s">>, <<"s", "t", "y", "l", "e">>, <<"r", "e", "f", "a", "c", "t", "o", "r">>, <<"p", "e", "r", "f">>, <<"t", "e", "s", "t">>,
      <<"b", "u", "i", "l", "d">>, <<"c", "i">>, <<"c", "h", "o", "r", "e">>, <<"r", "e", "v", "e", "r", "t">>, <<"s", "e", "c", "u", "r", "i", "t", "y">>, <<"d", "e", "p", "s">>, <<"r", "e", "m", "o", "v", "e">> }

VALID_SCOPES ==
    { <<"c", "l", "i">>, <<"w", "a", "t", "c", "h">>, <<"t", "e", "s", "t">>, <<"p", "r", "o", "c", "e", "s", "s", "o", "r">>, <<"r", "u", "n", "n", "e", "r">>, <<"c", "a", "c", "h", "e">>, <<"u", "i">>,
      <<"d", "i", "s", "p", "l", "a", "y">>, <<"c", "o", "l", "o", "r", "s">>, <<"i", "c", "o", "n", "s">>, <<"c", "o", "n", "f", "i", "g">>, <<"a", "p", "p">>, <<"e", "v", "e", "n", "t", "s">>,
      <<"m", "o", "d", "e", "l", "s">>, <<"m", "e", "t", "r", "i", "c", "s">>, <<"c", "o", "m", "p", "l", "e", "x", "i", "t", "y">>, <<"b", "e", "n", "c", "h", "m", "a", "r", "k", "s">>, <<"i", "n", "t", "e", "g", "r", "a", "t", "i", "o", "n">>,
      <<"r", "e", "c", "o", "v", "e", "r", "y">>, <<"c", "o", "o", "r", "d", "i", "n", "a", "t", "o", "r">>, <<"d", "e", "b", "o", "u", "n", "c", "e", "r">>, <<"w", "a", "t", "c", "h", "e", "r">>, <<"c", "o", "r", "e">>,
      <<"r", "e", "n", "d", "e", "r", "e", "r">>, <<"d", "o", "c", "s">>, <<"s", "c", "r", "i", "p", "t", "s">>, <<"c", "i">>, <<"m", "a", "k", "e", "f", "i", "l", "e">>, <<"h", "o", "o", "k", "s">>,
      <<"q", "u", "a", "l", "i", "t", "y">>, <<"p", "e", "r", "f", "o", "r", "m", "a", "n", "c", "e">>, <<"s", "e", "c", "u", "r", "i", "t", "y">>, <<"d", "e", "p", "s">> }

vague_words ==
    { <<"f", "i", "x">>, <<"u", "p", "d", "a", "t", "e">>, <<"c", "h", "a", "n", "g", "e">>, <<"m", "o", "d", "i", "f", "y">>, <<"i", "m", "p", "r", "o", "v", "e">>, <<"r", "e", "f", "a", "c", "t", "o", "r">>,
      <<"c", "l", "e", "a", "n", "u", "p">> }

imperative_indicators ==
    { <<"a", "d", "d">>, <<"f", "i", "x">>, <<"r", "e", "m", "o", "v", "e">>, <<"u", "p", "d", "a", "t", "e">>, <<"i", "m", "p", "r", "o", "v", "e">>, <<"r", "e", "f", "a", "c", "t", "o", "r">>,
      <<"i", "m", "p", "l", "e", "m", "e", "n", "t">>, <<"c", "r", "e", "a", "t", "e">>, <<"d", "e", "l", "e", "t", "e">>, <<"e", "n", "h", "a", "n", "c", "e">>, <<"o", "p", "t", "i", "m", "i", "z", "e">>, <<"c", "l", "e", "a", "n">>,
      <<"e", "x", "t", "r", "a", "c", "t">>, <<"r", "e", "n", "a", "m", "e">>, <<"m", "o", "v", "e">>, <<"s", "p", "l", "i", "t">>, <<"m", "e", "r", "g", "e">>, <<"i", "n", "t", "e", "g", "r", "a", "t", "e">>,
      <<"c", "o", "n", "f", "i", "g", "u", "r", "e">>, <<"r", "e", "s", "o", "l", "v", "e">>, <<"i", "n", "s", "t", "a", "l", "l">>, <<"s", "e", "t", "u", "p">>, <<"b", "u", "i", "l", "d">>, <<"d", "e", "p", "l", "o", "y">>,
      <<"r", "e", "l", "e", "a", "s", "e">> }

\* len(header) > 72 is an error
HEADER_MAX == 72

\* len(header) > 50 is a warning
HEADER_RECOMMENDED == 50

\* a body line longer than 72 is a warning
BODY_LINE_MAX == 72

\* a description shorter than 10 is a warning
DESCRIPTION_MIN == 10

(***************************************************************************)
(* The two regular expressions, matched with re.match under re.IGNORECASE. *)
(***************************************************************************)
\* a character of [a-z] under re.IGNORECASE
ClassLetter(c) == LowerChar(c) \in LowerSet \/ c \in {DOTLESS_I, LONG_S}

\* faulty variant: the scope class matched without re.IGNORECASE
ClassScopeLowercase(c) == c \in LowerSet \/ c = "-"

\* a character of [a-z-] under re.IGNORECASE
ClassScope(c) == ClassLetter(c) \/ c = "-"

\* the literal pattern character p (a lowercase letter) against c under re.IGNORECASE
LiteralI(p, c) ==
    \/ LowerChar(c) = p
    \/ p = "i" /\ c = DOTLESS_I
    \/ p = "s" /\ c = LONG_S

\* The ways the common tail of both patterns,  (\([a-z-]+\))?(!)?: .+ ,
\* matches h from position p (counted from 1): where the scope is, whether
\* the ! is taken, and where the colon is.
TailMatches(h, p) ==
    LET closes == IF ~HasAt(h, <<"(">>, p - 1) THEN {}
                  ELSE {q \in (p + 2)..Len(h) :
                           /\ h[q] = ")"
                           /\ \A j \in (p + 1)..(q - 1) : ClassScope(h[j])}
        scopes == {[has_scope |-> FALSE, from |-> 0, to |-> 0, next |-> p]}
                  \cup {[has_scope |-> TRUE, from |-> p + 1, to |-> q - 1,
                         next |-> q + 1] : q \in closes}
        taken  == {y \in scopes \X BOOLEAN :
                      y[2] => HasAt(h, <<"!">>, y[1].next - 1)}
        cands  == {[has_scope |-> y[1].has_scope, from |-> y[1].from,
                    to |-> y[1].to, bang |-> y[2],
                    colon |-> y[1].next + (IF y[2] THEN 1 ELSE 0)] : y \in taken}
    IN  {x \in cands : /\ HasAt(h, <<":", " ">>, x.colon - 1)
                       /\ x.colon + 2 <= Len(h)
                       /\ h[x.colon + 2] # NL}

\* faulty variant: the pattern matched without re.IGNORECASE
FormatPatternCaseSensitive(h) ==
    \E i \in 1..Len(TypeAlternation) :
        LET t == TypeAlternation[i]
        IN  /\ HasAt(h, t, 0)
            /\ TailMatches(h, Len(t) + 1) # {}

\* re.match(pattern, header, re.IGNORECASE) of validate_format
FormatPatternMatches(h) ==
    \E i \in 1..Len(TypeAlternation) :
        LET t == TypeAlternation[i]
        IN  /\ Len(t) <= Len(h)
            /\ \A k \in 1..Len(t) : LiteralI(t[k], h[k])
            /\ TailMatches(h, Len(t) + 1) # {}

\* re.match(r'^([a-z]+)(\(([a-z-]+)\))?(!)?: (.+)', header, re.IGNORECASE) of
\* validate_type_and_scope: the groups of the match the backtracking matcher
\* finds first (each quantifier greedy), or matched = FALSE.
HeaderMatch(h) ==
    LET run   == CHOOSE n \in 0..Len(h) :
                     /\ n = Len(h) \/ ~ClassLetter(h[n + 1])
                     /\ \A k \in 1..n : ClassLetter(h[k])
        lens  == {n \in 1..run : TailMatches(h, n + 1) # {}}
        n     == CHOOSE k \in lens : \A j \in lens : j <= k
        tails == TailMatches(h, n + 1)
        rank(x) == (IF x.has_scope THEN 2 ELSE 0) + (IF x.bang THEN 1 ELSE 0)
        x     == CHOOSE y \in tails : \A z \in tails : rank(z) <= rank(y)
    IN  IF lens = {}
        THEN [matched |-> FALSE, type |-> <<>>, has_scope |-> FALSE,
              scope |-> <<>>, breaking |-> FALSE, description |-> <<>>]
        ELSE [matched |-> TRUE,
              type |-> SubSeq(h, 1, n),
              has_scope |-> x.has_scope,
              scope |-> IF x.has_scope THEN SubSeq(h, x.from, x.to) ELSE <<>>,
              breaking |-> x.bang,
              description |-> SubSeq(h, x.colon + 2, Len(h))]

\* re.match of one of footer_patterns against a line
IsFooter(line) ==
    \/ \E kw \in {<<"C", "l", "o", "s", "e", "s", " ", "#">>, <<"F", "i", "x", "e", "s", " ", "#">>, <<"R", "e", "s", "o", "l", "v", "e", "s", " ", "#">>, <<"R", "e", "f", "s", " ", "#">>} :
          /\ HasAt(line, kw, 0)
          /\ Len(kw) < Len(line)
          /\ line[Len(kw) + 1] \in Digits
    \/ \E kw \in {<<"B", "R", "E", "A", "K", "I", "N", "G", " ", "C", "H", "A", "N", "G", "E", ":">>, <<"C", "o", "-", "a", "u", "t", "h", "o", "r", "e", "d", "-", "b", "y", ":">>, <<"S", "i", "g", "n", "e", "d", "-", "o", "f", "f", "-", "b", "y", ":">>} :
          HasAt(line, kw, 0)

(***************************************************************************)
(* Diagnostics.  An error or warning string is its fixed text (kind) and   *)
(* the values formatted into it.                                           *)
(***************************************************************************)
Msg(kind, a, b, text) == [kind |-> kind, a |-> a, b |-> b, text |-> text]

ErrEmpty == Msg("Commit message cannot be empty", 0, 0, <<>>)

ErrHeaderTooLong(n) == Msg("Header too long", n, HEADER_MAX, <<>>)

WarnHeaderLong(n) == Msg("Header long", n, HEADER_RECOMMENDED, <<>>)

ErrInvalidHeaderFormat(header) == Msg("Invalid header format", 0, 0, header)

ErrInvalidType(commit_type) == Msg("Invalid type", 0, 0, commit_type)

WarnUnknownScope(scope) == Msg("Unknown scope", 0, 0, scope)

ErrDescriptionEmpty == Msg("Description cannot be empty", 0, 0, <<>>)

WarnLowercase == Msg("Description should start with lowercase letter", 0, 0, <<>>)

WarnPeriod == Msg("Description should not end with a period", 0, 0, <<>>)

WarnBreaking == Msg("Breaking change detected", 0, 0, <<>>)

ErrBlankLine == Msg("There must be a blank line between header and body", 0, 0, <<>>)

WarnLineTooLong(i, n) == Msg("Line too long", i, n, <<>>)

WarnTooVague(description) == Msg("too vague", 0, 0, description)

WarnTooShort == Msg("Description should be at least 10 characters", 0, 0, <<>>)

WarnImperative(description) == Msg("Consider using imperative mood", 0, 0, description)

\* seq with x appended when cond holds
AppendIf(cond, seq, x) == IF cond THEN Append(seq, x) ELSE seq

\* what a stage leaves: its return value and the instance's two lists
Out(ok, errs, warns) == [ok |-> ok, errors |-> errs, warnings |-> warns]

\* message.strip().split('\n')
Lines(m) == SplitLines(Strip(m))

\* message.strip().split('\n')[0]
Header(m) == Lines(m)[1]

(***************************************************************************)
(* The four stages.  v holds self.errors and self.warnings as the stage    *)
(* finds them.                                                             *)
(***************************************************************************)
\* faulty variant: the length limit off by one, a header of 73 passes
format_of_limit_off_by_one(v, header) ==
    IF Len(header) > HEADER_MAX + 1
    THEN Out(FALSE, Append(v.errors, ErrHeaderTooLong(Len(header))), v.warnings)
    ELSE IF ~FormatPatternMatches(header)
    THEN Out(FALSE, Append(v.errors, ErrInvalidHeaderFormat(header)),
             AppendIf(Len(header) > HEADER_RECOMMENDED, v.warnings,
                      WarnHeaderLong(Len(header))))
    ELSE Out(TRUE, v.errors,
             AppendIf(Len(header) > HEADER_RECOMMENDED, v.warnings,
                      WarnHeaderLong(Len(header))))

\* faulty variant: >= for >, a header of exactly 72 is an error
format_of_limit_inclusive(v, header) ==
    IF Len(header) >= HEADER_MAX
    THEN Out(FALSE, Append(v.errors, ErrHeaderTooLong(Len(header))), v.warnings)
    ELSE IF ~FormatPatternMatches(header)
    THEN Out(FALSE, Append(v.errors, ErrInvalidHeaderFormat(header)),
             AppendIf(Len(header) > HEADER_RECOMMENDED, v.warnings,
                      WarnHeaderLong(Len(header))))
    ELSE Out(TRUE, v.errors,
             AppendIf(Len(header) > HEADER_RECOMMENDED, v.warnings,
                      WarnHeaderLong(Len(header))))

\* faulty variant: no return after the 'Header too long' error, the pattern
\* check follows it
format_of_no_return(v, header) ==
    IF ~FormatPatternMatches(header)
    THEN Out(FALSE,
             Append(AppendIf(Len(header) > HEADER_MAX, v.errors,
                             ErrHeaderTooLong(Len(header))),
                    ErrInvalidHeaderFormat(header)),
             AppendIf(Len(header) > HEADER_RECOMMENDED, v.warnings,
                      WarnHeaderLong(Len(header))))
    ELSE Out(Len(header) <= HEADER_MAX,
             AppendIf(Len(header) > HEADER_MAX, v.errors,
                      ErrHeaderTooLong(Len(header))),
             AppendIf(Len(header) > HEADER_RECOMMENDED, v.warnings,
                      WarnHeaderLong(Len(header))))

\* lines 58-79: the checks of validate_format on the header
format_of(v, header) ==
    IF Len(header) > HEADER_MAX
    THEN Out(FALSE, Append(v.errors, ErrHeaderTooLong(Len(header))), v.warnings)
    ELSE IF ~FormatPatternMatches(header)
    THEN Out(FALSE, Append(v.errors, ErrInvalidHeaderFormat(header)),
             AppendIf(Len(header) > HEADER_RECOMMENDED, v.warnings,
                      WarnHeaderLong(Len(header))))
    ELSE Out(TRUE, v.errors,
             AppendIf(Len(header) > HEADER_RECOMMENDED, v.warnings,
                      WarnHeaderLong(Len(header))))

validate_format(v, m) ==
    IF Lines(m) = <<>>
    THEN Out(FALSE, Append(v.errors, ErrEmpty), v.warnings)
    ELSE format_of(v, Header(m))

\* lines 96-123: the checks of validate_type_and_scope on the groups of
\* the match; w is self.warnings after the scope check
type_and_scope_after_scope(v, match, w) ==
    IF match.description = <<>>
    THEN Out(FALSE, Append(v.errors, ErrDescriptionEmpty), w)
    ELSE Out(TRUE, v.errors,
             AppendIf(match.breaking,
                 AppendIf(EndsWith(match.description, "."),
                     AppendIf(IsUpper(match.description[1]), w, WarnLowercase),
                     WarnPeriod),
                 WarnBreaking))

\* faulty variant: an unknown scope is an error
type_and_scope_strict_scope(v, match) ==
    IF ~match.matched
    THEN Out(FALSE, v.errors, v.warnings)
    ELSE IF Lower(match.type) \notin VALID_TYPES
    THEN Out(FALSE, Append(v.errors, ErrInvalidType(Lower(match.type))), v.warnings)
    ELSE IF match.has_scope /\ match.scope \notin VALID_SCOPES
    THEN Out(FALSE, Append(v.errors, WarnUnknownScope(match.scope)), v.warnings)
    ELSE type_and_scope_after_scope(v, match, v.warnings)

\* lines 87-123: validate_type_and_scope once the header is matched
type_and_scope_of(v, match) ==
    IF ~match.matched
    THEN Out(FALSE, v.errors, v.warnings)
    ELSE IF Lower(match.type) \notin VALID_TYPES
    THEN Out(FALSE, Append(v.errors, ErrInvalidType(Lower(match.type))), v.warnings)
    ELSE type_and_scope_after_scope(v, match,
             AppendIf(/\ match.has_scope
                      /\ match.scope # <<>>
                      /\ match.scope \notin VALID_SCOPES,
                      v.warnings, WarnUnknownScope(match.scope)))

validate_type_and_scope(v, m) == type_and_scope_of(v, HeaderMatch(Header(m)))

RECURSIVE LongLineWarnings(_, _, _)
\* the loop over enumerate(lines[2:], start=3), from line i on
LongLineWarnings(lines, i, warns) ==
    IF i > Len(lines) THEN warns
    ELSE LongLineWarnings(lines, i + 1,
             AppendIf(Len(lines[i]) > BODY_LINE_MAX, warns,
                      WarnLineTooLong(i, Len(lines[i]))))

\* faulty variant: the missing blank line fails the stage without an error
body_and_footer_silent(v, lines) ==
    IF Len(lines) < 2
    THEN Out(TRUE, v.errors, v.warnings)
    ELSE IF Len(lines) > 1 /\ Strip(lines[2]) # <<>>
    THEN Out(FALSE, v.errors, v.warnings)
    ELSE Out(TRUE, v.errors, LongLineWarnings(lines, 3, v.warnings))

\* faulty variant: lines[1] != '' for lines[1].strip() != ''
body_and_footer_no_strip(v, lines) ==
    IF Len(lines) < 2
    THEN Out(TRUE, v.errors, v.warnings)
    ELSE IF Len(lines) > 1 /\ lines[2] # <<>>
    THEN Out(FALSE, Append(v.errors, ErrBlankLine), v.warnings)
    ELSE Out(TRUE, v.errors, LongLineWarnings(lines, 3, v.warnings))

\* lines 129-159: validate_body_and_footer on the lines.  The loop over
\* footer_patterns only breaks on a match: it reads the lines and changes
\* nothing.
body_and_footer_of(v, lines) ==
    IF Len(lines) < 2
    THEN Out(TRUE, v.errors, v.warnings)
    ELSE IF Len(lines) > 1 /\ Strip(lines[2]) # <<>>
    THEN Out(FALSE, Append(v.errors, ErrBlankLine), v.warnings)
    ELSE Out(TRUE, v.errors, LongLineWarnings(lines, 3, v.warnings))

validate_body_and_footer(v, m) == body_and_footer_of(v, Lines(m))

\* lines 183-197: first_word and the imperative-mood check; w is
\* self.warnings after the two checks before it
quality_first_word(v, description, first_word, w) ==
    Out(TRUE, v.errors,
        AppendIf(first_word \notin imperative_indicators, w,
                 WarnImperative(description)))

\* faulty variant: a description that contains a vague word is flagged
quality_of_contains(v, description) ==
    quality_first_word(v, description, Lower(FirstWord(description)),
        AppendIf(Len(description) < DESCRIPTION_MIN,
            AppendIf(\E word \in vague_words :
                         Find(Strip(Lower(description)), word) # -1,
                     v.warnings, WarnTooVague(description)),
            WarnTooShort))

\* lines 172-197: the checks of validate_content_quality on the description
quality_of(v, description) ==
    quality_first_word(v, description, Lower(FirstWord(description)),
        AppendIf(Len(description) < DESCRIPTION_MIN,
            AppendIf(Strip(Lower(description)) \in vague_words, v.warnings,
                     WarnTooVague(description)),
            WarnTooShort))

\* lines 166-197: validate_content_quality on the header
quality_of_header(v, header, colon_pos) ==
    IF colon_pos = -1
    THEN Out(FALSE, v.errors, v.warnings)
    ELSE quality_of(v, Strip(SubSeq(header, colon_pos + 3, Len(header))))

validate_content_quality(v, m) ==
    quality_of_header(v, Header(m), Find(Header(m), <<":", " ">>))

(***************************************************************************)
(* validate_commit_message, line by line.                                  *)
(***************************************************************************)
\* faulty variant: the lists are not reset
ResetNothing(v) == [errors |-> v.errors, warnings |-> v.warnings]

\* lines 201-202: self.errors = []; self.warnings = []
Reset(v) == [errors |-> <<>>, warnings |-> <<>>]

\* line 204: not message or not message.strip()
IsBlank(m) == m = <<>> \/ Strip(m) = <<>>

\* X(message) if format_ok else False: a stage that is not run leaves the lists alone
Skipped(v) == Out(FALSE, v.errors, v.warnings)

\* line 210
type_scope_step(ok, v, m) == IF ok THEN validate_type_and_scope(v, m) ELSE Skipped(v)

\* faulty variant: the stage runs whatever format_ok is
body_footer_always(ok, v, m) == validate_body_and_footer(v, m)

\* line 211
body_footer_step(ok, v, m) == IF ok THEN validate_body_and_footer(v, m) ELSE Skipped(v)

\* line 212
quality_step(ok, v, m) == IF ok THEN validate_content_quality(v, m) ELSE Skipped(v)

\* line 214
IsValid(f_ok, t_ok, b_ok, q_ok) == f_ok /\ t_ok /\ b_ok /\ q_ok

\* the returned tuple
Triple(is_valid, errs, warns) == [is_valid |-> is_valid, errors |-> errs, warnings |-> warns]

\* what result[t] holds while caller t has no result
NoResult == Triple(FALSE, <<>>, <<>>)

\* lines 214-216 with the locals known; q is what line 212 left
From214(f_ok, t_ok, b_ok, q) ==
    Triple(IsValid(f_ok, t_ok, b_ok, q.ok), q.errors, q.warnings)

\* lines 212-216; b is what line 211 left
From212(f_ok, t_ok, b, m) == From214(f_ok, t_ok, b.ok, quality_step(f_ok, b, m))

\* lines 211-216; t is what line 210 left
From211(f_ok, t, m) == From212(f_ok, t.ok, body_footer_step(f_ok, t, m), m)

\* lines 210-216; f is what line 209 left
From210(f, m) == From211(f.ok, type_scope_step(f.ok, f, m), m)

\* lines 204-216; r is what lines 201-202 left
From204(r, m) ==
    IF IsBlank(m)
    THEN Triple(FALSE, Append(r.errors, ErrEmpty), r.warnings)
    ELSE From210(validate_format(r, m), m)

\* One whole call on an instance whose lists are v, run without interruption.
validate_commit_message(v, m) == From204(Reset(v), m)

\* CommitMessageValidator(): __init__
NewValidator == [errors |-> <<>>, warnings |-> <<>>]

(***************************************************************************)
(* The messages the callers pass.                                          *)
(***************************************************************************)
\* how far past a length limit the padded headers and body lines go
MaxOver == 1

\* how many arguments follow the program name on the command line
MaxArgs == 2

\* s padded with 'a' to n characters (s itself when it is longer)
PadTo(s, n) == IF Len(s) >= n THEN s ELSE s \o Rep("a", n - Len(s))

Headers ==
    { <<"f", "e", "a", "t", "(", "c", "l", "i", ")", ":", " ", "a", "d", "d", " ", "c", "o", "m", "p", "l", "e", "x", "i", "t", "y", " ", "a", "n", "a", "l", "y", "s", "i", "s", " ", "c", "o", "m", "m", "a", "n", "d">>,
      <<"f", "i", "x", ":", " ", "b", "u", "g">>,
      <<"f", "e", "a", "t", "(", "c", "l", "i", ")", ":", " ", "f", "i", "x">>,
      <<"f", "i", "x", ":", " ", " ", "C", "l", "e", "a", "n", "u", "p", " ">>,
      <<"f", "i", "x", ":", " ", "u", "p", "d", "a", "t", "e", " ", "t", "h", "e", " ", "r", "e", "a", "d", "m", "e">>,
      <<"d", "o", "c", "s", ":", " ", "U", "p", "d", "a", "t", "e">>,
      <<"f", "e", "a", "t", "(", "u", "n", "k", "n", "o", "w", "n", ")", ":", " ", "a", "d", "d", " ", "n", "e", "w", " ", "f", "e", "a", "t", "u", "r", "e">>,
      <<"F", "E", "A", "T", "(", "C", "L", "I", ")", ":", " ", "A", "d", "d", " ", "t", "h", "i", "n", "g", ".">>,
      <<"f", "e", "a", "t", "(", "a", "p", "i", ")", "!", ":", " ", "r", "e", "m", "o", "v", "e", " ", "d", "e", "p", "r", "e", "c", "a", "t", "e", "d", " ", "e", "n", "d", "p", "o", "i", "n", "t", "s">>,
      <<"f", "i", "x", "(", "c", "o", "r", "e", ")", "!", ":", " ", "c", "h", "a", "n", "g", "e">>,
      <<"r", "e", "v", "e", "r", "t", ":", " ", "f", "e", "a", "t", "(", "c", "l", "i", ")", ":", " ", "a", "d", "d", " ", "c", "o", "m", "p", "l", "e", "x", "i", "t", "y", " ", "a", "n", "a", "l", "y", "s", "i", "s">>,
      <<"f", "e", "a", "t", ":", " ", " ">>,
      <<"f", "e", "a", "t", ":", " ">>,
      <<"f", "e", "a", "t", ":">>,
      <<"f", "e", "a", "t">>,
      <<"f", "e", "a", "t", "u", "r", "e", ":", " ", "a", "d", "d", " ", "n", "e", "w", " ", "f", "u", "n", "c", "t", "i", "o", "n", "a", "l", "i", "t", "y">>,
      <<"f", "e", "a", "t", " ", "a", "d", "d", " ", "s", "o", "m", "e", "t", "h", "i", "n", "g">>,
      <<"f", "e", "a", "t", "(", ")", ":", " ", "e", "m", "p", "t", "y", " ", "s", "c", "o", "p", "e">>,
      <<"f", "e", "a", "t", "(", "c", "1", ")", ":", " ", "a", "d", "d", " ", "t", "h", "i", "n", "g">>,
      <<"j", "u", "s", "t", " ", "t", "e", "x", "t", " ", "w", "i", "t", "h", "o", "u", "t", " ", "f", "o", "r", "m", "a", "t">>,
      <<"f", "U+0131", "x", ":", " ", "a", "d", "d", " ", "t", "h", "i", "n", "g", " ", "h", "e", "r", "e">>,
      <<"t", "e", "U+017F", "t", "(", "c", "l", "i", ")", ":", " ", "a", "d", "d", " ", "t", "h", "i", "n", "g", " ", "h", "e", "r", "e">>,
      <<"f", "U+0130", "x", "(", "U+212A", "z", ")", ":", " ", "a", "d", "d", " ", "t", "h", "i", "n", "g", " ", "h", "e", "r", "e">>,
      <<"f", "e", "a", "t", "(", "U+212A", "z", ")", ":", " ", "U+212A", "e", "e", "p", " ", "t", "h", "i", "n", "g", " ", "h", "e", "r", "e">>,
      <<" ", "TAB", "f", "e", "a", "t", "(", "u", "i", ")", ":", " ", "a", "d", "d", " ", "l", "e", "a", "d", "i", "n", "g", " ", "s", "p", "a", "c", "e">> }

\* the headers that are also padded to the lengths around the limits
CoreHeaders ==
    { <<"f", "e", "a", "t", "(", "c", "l", "i", ")", ":", " ", "a", "d", "d", " ", "t", "h", "i", "n", "g">>,
      <<"F", "i", "x", "(", "Z", "z", ")", "!", ":", " ", "U", "p", "d", "a", "t", "e", ".">>,
      <<"f", "e", "a", "t", "u", "r", "e", ":", " ", "a", "d", "d", " ", "t", "h", "i", "n", "g">>,
      <<"f", "U+0131", "x", "(", "z", "z", ")", ":", " ", "a", "d", "d", " ", "t", "h", "i", "n", "g">> }

\* the header lengths around the two limits (0: not padded)
HeaderLengths ==
    {0} \cup {HEADER_RECOMMENDED + d : d \in 0..MaxOver}
        \cup {HEADER_MAX + d : d \in 0..MaxOver}

\* a body line at the limit and past it
BodyLines == {Rep("b", BODY_LINE_MAX + d) : d \in 0..MaxOver}

\* what follows the header
ShortBodies ==
    { <<>>,
      <<"LF", "n", "o", " ", "b", "l", "a", "n", "k", " ", "l", "i", "n", "e", " ", "a", "b", "o", "v", "e">>,
      <<"LF", "LF", "A", "d", "d", " ", "a", " ", "c", "o", "m", "m", "a", "n", "d", ".", "LF", "LF", "C", "l", "o", "s", "e", "s", " ", "#", "1", "2", "3">> }

Bodies ==
    ShortBodies
    \cup { <<"LF">>,
           <<"LF", "C", "l", "o", "s", "e", "s", " ", "#", "1", "2", "3">>,
           <<"LF", " ", "TAB", "LF", "B", "R", "E", "A", "K", "I", "N", "G", " ", "C", "H", "A", "N", "G", "E", ":", " ", "A", "P", "I", " ", "h", "a", "s", " ", "c", "h", "a", "n", "g", "e", "d">>,
           <<"LF", "LF", "S", "i", "g", "n", "e", "d", "-", "o", "f", "f", "-", "b", "y", ":", " ", "J", "a", "n", "e", "LF">> }
    \cup {<<"LF", "LF">> \o l \o <<"LF", "R", "e", "f", "s", " ", "#", "7">> : l \in BodyLines}

BlankMessages == { <<>>, <<" ">>, <<"LF", " ", "LF">>, <<"TAB">> }

Messages ==
    BlankMessages
    \cup {h \o b : h \in Headers, b \in ShortBodies}
    \cup {PadTo(h, n) \o b : h \in CoreHeaders, n \in HeaderLengths, b \in Bodies}

\* the messages of the concurrent callers
ConcMessages ==
    { <<>>,
      <<"f", "i", "x", ":", " ", "b", "u", "g">>,
      <<"b", "a", "d">>,
      <<"F", "e", "a", "t", "(", "z", "z", ")", "!", ":", " ", "A", "d", "d", ".", "LF", "n", "o", " ", "b", "l", "a", "n", "k", " ", "l", "i", "n", "e">>,
      PadTo(<<"d", "o", "c", "s", ":", " ", "u", "p", "d", "a", "t", "e">>, HEADER_RECOMMENDED + 1) }

(***************************************************************************)
(* Callers of validate_commit_message.  Caller t runs the method on        *)
(* instance inst[t]; every line reads and writes self.errors and           *)
(* self.warnings, the attributes of that instance.  A stage is one step:   *)
(* the interleavings of two callers are those that switch between lines of *)
(* validate_commit_message.                                                *)
(***************************************************************************)
Callers == {1, 2}

Instances == {1, 2}

\* faulty variant: the lists belong to the class, every caller shares them
SelfShared(t) == 1

\* self of caller t
Self(t) == inst[t]

\* self.errors and self.warnings as caller t finds them
Lists(t) == [errors |-> errors[Self(t)], warnings |-> warnings[Self(t)]]

\* the assignments of a line to the two attributes of self
SetLists(t, v) ==
    /\ errors' = [errors EXCEPT ![Self(t)] = v.errors]
    /\ warnings' = [warnings EXCEPT ![Self(t)] = v.warnings]

Goto(t, line) == pc' = [pc EXCEPT ![t] = line]

\* a stage's result r is stored: the lists in self, the flag in the local ok
Store(t, r, ok) ==
    /\ SetLists(t, r)
    /\ ok' = [ok EXCEPT ![t] = r.ok]

locals == <<format_ok, type_scope_ok, body_footer_ok, quality_ok>>

history == <<stale, overlapped>>

\* caller u is inside validate_commit_message
InCall(u) == pc[u] \notin {"idle", "done"}

\* the instances after __init__, callers not yet in a call
InitCall(instOf) ==
    /\ errors = [i \in Instances |-> NewValidator.errors]
    /\ warnings = [i \in Instances |-> NewValidator.warnings]
    /\ inst = instOf
    /\ pc = [t \in Callers |-> "idle"]
    /\ message = [t \in Callers |-> <<>>]
    /\ format_ok = [t \in Callers |-> FALSE]
    /\ type_scope_ok = [t \in Callers |-> FALSE]
    /\ body_footer_ok = [t \in Callers |-> FALSE]
    /\ quality_ok = [t \in Callers |-> FALSE]
    /\ result = [t \in Callers |-> NoResult]
    /\ stale = [t \in Callers |-> FALSE]
    /\ overlapped = FALSE

\* self.validator.validate_commit_message(m): the call is entered
Call(t, m) ==
    /\ pc[t] \in {"idle", "done"}
    /\ Goto(t, "L201")
    /\ message' = [message EXCEPT ![t] = m]
    /\ result' = [result EXCEPT ![t] = NoResult]
    /\ format_ok' = [format_ok EXCEPT ![t] = FALSE]
    /\ type_scope_ok' = [type_scope_ok EXCEPT ![t] = FALSE]
    /\ body_footer_ok' = [body_footer_ok EXCEPT ![t] = FALSE]
    /\ quality_ok' = [quality_ok EXCEPT ![t] = FALSE]
    /\ stale' = [stale EXCEPT ![t] = Lists(t) # NewValidator]
    /\ overlapped' = (overlapped \/ \E u \in Callers \ {t} : InCall(u))
    /\ UNCHANGED <<errors, warnings, inst>>
    /\ UNCHANGED cliVars

\* self.errors = []
L201(t) ==
    /\ pc[t] = "L201"
    /\ errors' = [errors EXCEPT ![Self(t)] = Reset(Lists(t)).errors]
    /\ Goto(t, "L202")
    /\ UNCHANGED <<warnings, inst, message, result>>
    /\ UNCHANGED locals
    /\ UNCHANGED history
    /\ UNCHANGED cliVars

\* self.warnings = []
L202(t) ==
    /\ pc[t] = "L202"
    /\ warnings' = [warnings EXCEPT ![Self(t)] = Reset(Lists(t)).warnings]
    /\ Goto(t, "L204")
    /\ UNCHANGED <<errors, inst, message, result>>
    /\ UNCHANGED locals
    /\ UNCHANGED history
    /\ UNCHANGED cliVars

\* if not message or not message.strip(): append, return False, self.errors, self.warnings
L204(t) ==
    /\ pc[t] = "L204"
    /\ IF IsBlank(message[t])
       THEN /\ errors' = [errors EXCEPT ![Self(t)] = Append(@, ErrEmpty)]
            /\ result' = [result EXCEPT
                             ![t] = Triple(FALSE, errors'[Self(t)], warnings[Self(t)])]
            /\ Goto(t, "done")
       ELSE /\ Goto(t, "L209")
            /\ UNCHANGED <<errors, result>>
    /\ UNCHANGED <<warnings, inst, message>>
    /\ UNCHANGED locals
    /\ UNCHANGED history
    /\ UNCHANGED cliVars

\* format_ok = self.validate_format(message)
L209(t) ==
    /\ pc[t] = "L209"
    /\ Store(t, validate_format(Lists(t), message[t]), format_ok)
    /\ Goto(t, "L210")
    /\ UNCHANGED <<inst, message, result, type_scope_ok, body_footer_ok, quality_ok>>
    /\ UNCHANGED history
    /\ UNCHANGED cliVars

\* type_scope_ok = self.validate_type_and_scope(message) if format_ok else False
L210(t) ==
    /\ pc[t] = "L210"
    /\ Store(t, type_scope_step(format_ok[t], Lists(t), message[t]), type_scope_ok)
    /\ Goto(t, "L211")
    /\ UNCHANGED <<inst, message, result, format_ok, body_footer_ok, quality_ok>>
    /\ UNCHANGED history
    /\ UNCHANGED cliVars

\* body_footer_ok = self.validate_body_and_footer(message) if format_ok else False
L211(t) ==
    /\ pc[t] = "L211"
    /\ Store(t, body_footer_step(format_ok[t], Lists(t), message[t]), body_footer_ok)
    /\ Goto(t, "L212")
    /\ UNCHANGED <<inst, message, result, format_ok, type_scope_ok, quality_ok>>
    /\ UNCHANGED history
    /\ UNCHANGED cliVars

\* quality_ok = self.validate_content_quality(message) if format_ok else False
L212(t) ==
    /\ pc[t] = "L212"
    /\ Store(t, quality_step(format_ok[t], Lists(t), message[t]), quality_ok)
    /\ Goto(t, "L214")
    /\ UNCHANGED <<inst, message, result, format_ok, type_scope_ok, body_footer_ok>>
    /\ UNCHANGED history
    /\ UNCHANGED cliVars

\* is_valid = ... ; return is_valid, self.errors, self.warnings
L214(t) ==
    /\ pc[t] = "L214"
    /\ result' = [result EXCEPT
                     ![t] = Triple(IsValid(format_ok[t], type_scope_ok[t],
                                           body_footer_ok[t], quality_ok[t]),
                                   errors[Self(t)], warnings[Self(t)])]
    /\ Goto(t, "done")
    /\ UNCHANGED <<errors, warnings, inst, message>>
    /\ UNCHANGED locals
    /\ UNCHANGED history
    /\ UNCHANGED cliVars

\* a line of validate_commit_message run by caller t
Line(t) ==
    \/ L201(t)
    \/ L202(t)
    \/ L204(t)
    \/ L209(t)
    \/ L210(t)
    \/ L211(t)
    \/ L212(t)
    \/ L214(t)

(***************************************************************************)
(* main() and read_commit_message().  argv is sys.argv: argv[1] is the     *)
(* program name, so Python's sys.argv[k] is argv[k + 1].                   *)
(***************************************************************************)
Argv0 == <<"v", "a", "l", "i", "d", "a", "t", "e", "_", "c", "o", "m", "m", "i", "t", "_", "m", "s", "g", ".", "p", "y">>

ArgHelp == <<"-", "-", "h", "e", "l", "p">>

ArgH == <<"-", "h">>

Args ==
    { ArgHelp, ArgH, <<>>, <<"m", "s", "g", ".", "t", "x", "t">>, <<"f", "e", "a", "t", "(", "c", "l", "i", ")", ":", " ", "a", "d", "d", " ", "n", "e", "w", " ", "f", "e", "a", "t", "u", "r", "e">>,
      <<"f", "e", "a", "t", "(", "c", "l", "i", ")", ":">>, <<"i", "n", "v", "a", "l", "i", "d", " ", "m", "e", "s", "s", "a", "g", "e", " ", "f", "o", "r", "m", "a", "t">> }

RECURSIVE ArgLists(_)
\* the argument lists of at most n arguments
ArgLists(n) ==
    IF n = 0 THEN {<<>>}
    ELSE ArgLists(n - 1)
         \cup {Append(a, x) : a \in {b \in ArgLists(n - 1) : Len(b) = n - 1}, x \in Args}

\* what a file or standard input holds
Contents ==
    { <<>>, <<" ", "LF">>, <<"f", "e", "a", "t", "(", "c", "l", "i", ")", ":", " ", "a", "d", "d", " ", "a", " ", "c", "o", "m", "m", "a", "n", "d", "LF">>, <<"f", "e", "a", "t", "(", "c", "l", "i", ")", ":", " ", "f", "i", "x", "LF">>,
      <<"f", "e", "a", "t", "(", "c", "l", "i", ")", ":", " ", "a", "d", "d", " ", "t", "h", "i", "n", "g", "LF", "n", "o", " ", "b", "l", "a", "n", "k", " ", "l", "i", "n", "e", "LF">> }

\* the process has not started main
main_idle ==
    /\ argv = <<Argv0>>
    /\ path_exists = FALSE
    /\ file_data = <<>>
    /\ stdin_tty = TRUE
    /\ stdin_data = <<>>
    /\ main_pc = "off"
    /\ main_message = <<>>
    /\ exit_code = -1

InitMain ==
    /\ argv \in {<<Argv0>> \o a : a \in ArgLists(MaxArgs)}
    /\ path_exists \in BOOLEAN
    /\ file_data \in Contents
    /\ stdin_tty \in BOOLEAN
    /\ stdin_data \in Contents
    /\ main_pc = "L282"
    /\ main_message = <<>>
    /\ exit_code = -1

\* sys.exit(code)
Exit(code) ==
    /\ exit_code' = code
    /\ main_pc' = "exited"

read_commit_message(file_path, has_path) ==
    IF has_path /\ file_path # <<>> /\ path_exists
    THEN file_data
    ELSE IF ~stdin_tty
    THEN stdin_data
    ELSE IF Len(argv) > 1 THEN Join(Tail(argv)) ELSE <<>>

\* faulty variant: warnings fail the commit
ExitCodeStrict(is_valid, warns) == IF is_valid /\ warns = <<>> THEN 0 ELSE 1

\* the code main exits with after the validator returned
ExitCodeOf(is_valid, warns) ==
    IF is_valid /\ warns = <<>> THEN 0
    ELSE IF ~is_valid THEN 1
    ELSE 0

\* if '--help' in sys.argv or '-h' in sys.argv
Main282 ==
    /\ main_pc = "L282"
    /\ IF ArgHelp \in Range(argv) \/ ArgH \in Range(argv)
       THEN Exit(0)
       ELSE main_pc' = "L287" /\ UNCHANGED exit_code
    /\ UNCHANGED <<argv, path_exists, file_data, stdin_tty, stdin_data, main_message>>
    /\ UNCHANGED callVars

\* commit_msg_file = ...; message = read_commit_message(commit_msg_file)
Main287 ==
    /\ main_pc = "L287"
    /\ main_message' = read_commit_message(IF Len(argv) > 1 THEN argv[2] ELSE <<>>,
                                           Len(argv) > 1)
    /\ main_pc' = "L290"
    /\ UNCHANGED <<argv, path_exists, file_data, stdin_tty, stdin_data, exit_code>>
    /\ UNCHANGED callVars

\* if not message.strip(): sys.exit(1)
Main290 ==
    /\ main_pc = "L290"
    /\ IF Strip(main_message) = <<>>
       THEN Exit(1)
       ELSE main_pc' = "L296" /\ UNCHANGED exit_code
    /\ UNCHANGED <<argv, path_exists, file_data, stdin_tty, stdin_data, main_message>>
    /\ UNCHANGED callVars

\* validator = CommitMessageValidator(); the call; the report; sys.exit
Report(r) ==
    /\ result' = [result EXCEPT ![1] = r]
    /\ errors' = [errors EXCEPT ![1] = r.errors]
    /\ warnings' = [warnings EXCEPT ![1] = r.warnings]
    /\ Exit(ExitCodeOf(r.is_valid, r.warnings))

Main296 ==
    /\ main_pc = "L296"
    /\ Report(validate_commit_message(NewValidator, main_message))
    /\ UNCHANGED <<argv, path_exists, file_data, stdin_tty, stdin_data, main_message>>
    /\ UNCHANGED <<inst, pc, message>>
    /\ UNCHANGED locals
    /\ UNCHANGED history

(***************************************************************************)
(* Specifications.                                                         *)
(***************************************************************************)
\* one caller making call after call on one instance (the tests' setUp)
Init ==
    /\ InitCall([t \in Callers |-> 1])
    /\ main_idle

Next ==
    \/ \E m \in Messages : Call(1, m)
    \/ Line(1)

Spec == Init /\ [][Next]_vars

\* two callers, each making calls, on one shared instance or on two
InitConc ==
    /\ \E i \in Instances : InitCall([t \in Callers |-> IF t = 1 THEN 1 ELSE i])
    /\ main_idle

\* each caller makes one call
NextConc ==
    \/ \E t \in Callers : \E m \in ConcMessages : pc[t] = "idle" /\ Call(t, m)
    \/ \E t \in Callers : Line(t)

SpecConc == InitConc /\ [][NextConc]_vars

\* one run of the script
InitCli ==
    /\ InitCall([t \in Callers |-> 1])
    /\ InitMain

NextCli ==
    \/ Main282
    \/ Main287
    \/ Main290
    \/ Main296

SpecCli == InitCli /\ [][NextCli]_vars

(***************************************************************************)
(* The claims.                                                             *)
(***************************************************************************)
\* caller t's call has returned
Done(t) == pc[t] = "done"

Kinds(seq) == {seq[i].kind : i \in 1..Len(seq)}

\* the triple a freshly constructed validator returns for m
Alone(m) == validate_commit_message(NewValidator, m)

\* h reads type(scope)?!?: description with the type, in any letter case, one
\* of the 14 and at least one character of description
ConventionalHeader(h) ==
    \E n \in 1..Len(h) :
        /\ Lower(SubSeq(h, 1, n)) \in VALID_TYPES
        /\ TailMatches(h, n + 1) # {}

\* the second line of the trimmed message is absent or blank
ProperSeparation(m) == Len(Lines(m)) < 2 \/ Strip(Lines(m)[2]) = <<>>

\* the header format check fails on a message that is not blank
FormatFails(m) ==
    \/ Len(Header(m)) > HEADER_MAX
    \/ ~FormatPatternMatches(Header(m))

\* C1: the returned is_valid is true exactly when the returned errors list
\* is empty; at every line after a stage, a stage that ran and returned a
\* failing flag has left an error in self.errors.
C1_ValidIffNoErrors ==
    /\ Done(1) => (result[1].is_valid <=> result[1].errors = <<>>)
    /\ (pc[1] \in {"L210", "L211", "L212", "L214"} /\ ~format_ok[1])
          => errors[1] # <<>>
    /\ (pc[1] \in {"L211", "L212", "L214"} /\ format_ok[1] /\ ~type_scope_ok[1])
          => errors[1] # <<>>
    /\ (pc[1] \in {"L212", "L214"} /\ format_ok[1] /\ ~body_footer_ok[1])
          => errors[1] # <<>>
    /\ (pc[1] = "L214" /\ format_ok[1] /\ ~quality_ok[1])
          => errors[1] # <<>>

\* a call returned valid with warnings and no error
C1_Witness ==
    /\ Done(1)
    /\ result[1].is_valid
    /\ result[1].errors = <<>>
    /\ Len(result[1].warnings) >= 2

\* C2 as claimed: every message with a conventional header and proper
\* blank-line separation is valid.
C2_AsClaimed ==
    (/\ Done(1)
     /\ ConventionalHeader(Header(message[1]))
     /\ ProperSeparation(message[1]))
        => result[1].is_valid

\* C2 amended: every message with a conventional header of at most 72
\* characters and proper blank-line separation is valid.
C2_ValidWhenConventional ==
    (/\ Done(1)
     /\ ConventionalHeader(Header(message[1]))
     /\ Len(Header(message[1])) <= HEADER_MAX
     /\ ProperSeparation(message[1]))
        => result[1].is_valid

\* a conventional header of more than 50 characters, written in capitals,
\* with a body after a blank line, was found valid
C2_Witness ==
    /\ Done(1)
    /\ ConventionalHeader(Header(message[1]))
    /\ ~FormatPatternCaseSensitive(Header(message[1]))
    /\ Len(Header(message[1])) > HEADER_RECOMMENDED
    /\ Len(Lines(message[1])) > 2
    /\ ProperSeparation(message[1])
    /\ result[1].is_valid

\* C3: a header of more than 72 characters makes the message invalid with a
\* 'Header too long' error, whatever else the message holds.
C3_HeaderTooLong ==
    (Done(1) /\ Len(Header(message[1])) > HEADER_MAX)
        => /\ ~result[1].is_valid
           /\ ErrHeaderTooLong(Len(Header(message[1]))) \in Range(result[1].errors)

\* an otherwise conventional message with a 73-character header was rejected
C3_Witness ==
    /\ Done(1)
    /\ Len(Header(message[1])) = HEADER_MAX + 1
    /\ ConventionalHeader(Header(message[1]))
    /\ ProperSeparation(message[1])
    /\ ~result[1].is_valid

\* C4: a header of 51 to 72 characters gets the 'Header long' warning and no
\* length error, and the message is valid when the header is conventional
\* and the body separation proper.
C4_HeaderLongWarns ==
    (/\ Done(1)
     /\ Len(Header(message[1])) > HEADER_RECOMMENDED
     /\ Len(Header(message[1])) <= HEADER_MAX)
        => /\ WarnHeaderLong(Len(Header(message[1]))) \in Range(result[1].warnings)
           /\ "Header too long" \notin Kinds(result[1].errors)
           /\ (/\ ConventionalHeader(Header(message[1]))
               /\ ProperSeparation(message[1])) => result[1].is_valid

\* a message with a header of exactly 72 characters and a body was found valid
C4_Witness ==
    /\ Done(1)
    /\ Len(Header(message[1])) = HEADER_MAX
    /\ Len(Lines(message[1])) > 2
    /\ WarnHeaderLong(HEADER_MAX) \in Range(result[1].warnings)
    /\ result[1].is_valid

\* the header of m carries a scope that is not in VALID_SCOPES
UnknownScope(m) ==
    /\ HeaderMatch(Header(m)).has_scope
    /\ HeaderMatch(Header(m)).scope \notin VALID_SCOPES

\* m, trimmed, with the scope of its header replaced by s
WithScope(m, s) ==
    SubSeq(Header(m), 1, Len(HeaderMatch(Header(m)).type) + 1)
    \o s
    \o SubSeq(Strip(m),
              Len(HeaderMatch(Header(m)).type) + 2 + Len(HeaderMatch(Header(m)).scope),
              Len(Strip(m)))

\* what C5 says of a returned call on m: the warning is there, and validity
\* and errors are those of the same message with a recognized scope (of the
\* same length, so that the header length is the same)
ScopeOnlyWarns(m, r) ==
    /\ WarnUnknownScope(HeaderMatch(Header(m)).scope) \in Range(r.warnings)
    /\ \A s \in {x \in VALID_SCOPES : Len(x) = Len(HeaderMatch(Header(m)).scope)} :
          /\ Alone(WithScope(m, s)).is_valid = r.is_valid
          /\ Alone(WithScope(m, s)).errors = r.errors
    /\ ProperSeparation(m) => r.is_valid

\* C5 as claimed: whenever the header passes the format check and carries an
\* unknown scope, the 'Unknown scope' warning is emitted and the scope adds
\* no error.
C5_AsClaimed ==
    (Done(1) /\ format_ok[1] /\ UnknownScope(message[1]))
        => ScopeOnlyWarns(message[1], result[1])

\* C5 amended: the same, for the headers whose type, lowercased, is one of
\* VALID_TYPES.
C5_UnknownScopeWarns ==
    (/\ Done(1)
     /\ format_ok[1]
     /\ UnknownScope(message[1])
     /\ Lower(HeaderMatch(Header(message[1])).type) \in VALID_TYPES)
        => ScopeOnlyWarns(message[1], result[1])

\* a message with an unknown scope for which a recognized scope of the same
\* length exists was found valid
C5_Witness ==
    /\ Done(1)
    /\ format_ok[1]
    /\ UnknownScope(message[1])
    /\ \E s \in VALID_SCOPES : Len(s) = Len(HeaderMatch(Header(message[1])).scope)
    /\ "Unknown scope" \in Kinds(result[1].warnings)
    /\ result[1].is_valid

\* C6: when the header passes the format check, a non-blank second line
\* makes the message invalid with the blank-line error; when the second line
\* is absent or blank, the body/footer stage leaves self.errors as it found
\* it and returns True.
C6_BlankLineRule ==
    /\ []((Done(1) /\ format_ok[1] /\ ~ProperSeparation(message[1]))
             => /\ ~result[1].is_valid
                /\ ErrBlankLine \in Range(result[1].errors))
    /\ [][(pc[1] = "L211" /\ format_ok[1] /\ ProperSeparation(message[1]))
             => /\ errors' = errors
                /\ body_footer_ok'[1]]_vars

\* a message with a whitespace-only second line, an over-long body line and
\* a recognized footer was found valid, with the line-length warning
C6_Witness ==
    /\ Done(1)
    /\ format_ok[1]
    /\ Len(Lines(message[1])) > 2
    /\ Lines(message[1])[2] # <<>>
    /\ \E i \in 3..Len(Lines(message[1])) : IsFooter(Lines(message[1])[i])
    /\ result[1].is_valid
    /\ result[1].errors = <<>>

\* C7: whatever calls the instance served before, a call returns the triple
\* a fresh validator returns for the same message.
C7_PureFunction == Done(1) => result[1] = Alone(message[1])

\* a call that found entries of an earlier call in the instance's lists
\* returned without any error or warning
C7_Witness ==
    /\ Done(1)
    /\ stale[1]
    /\ result[1] = Triple(TRUE, <<>>, <<>>)

\* C8 as claimed: two callers of one shared instance each get the triple
\* their call returns when run alone, under every interleaving.
C8_AsClaimed ==
    (inst[1] = inst[2])
        => \A t \in Callers : Done(t) => result[t] = Alone(message[t])

\* C8 amended: each caller gets the triple its call returns when run alone
\* when the two callers use separate instances, or when their calls on a
\* shared instance do not overlap.
C8_SeparateInstances ==
    (inst[1] # inst[2] \/ ~overlapped)
        => \A t \in Callers : Done(t) => result[t] = Alone(message[t])

\* two overlapping calls on separate instances returned different triples,
\* one with an error and one with warnings
C8_Witness ==
    /\ Done(1)
    /\ Done(2)
    /\ inst[1] # inst[2]
    /\ overlapped
    /\ result[1].errors # <<>>
    /\ result[2].warnings # <<>>
    /\ result[2].is_valid

\* '--help' in sys.argv or '-h' in sys.argv
HelpAsked == ArgHelp \in Range(argv) \/ ArgH \in Range(argv)

\* C9: main exits with 0 on a help flag, before any message is read; with 1
\* on an empty message; otherwise with 0 exactly when the message is valid,
\* warnings or not.
C9_ExitCode ==
    main_pc = "exited" =>
        /\ HelpAsked => (exit_code = 0 /\ main_message = <<>> /\ result[1] = NoResult)
        /\ (~HelpAsked /\ Strip(main_message) = <<>>) => exit_code = 1
        /\ (~HelpAsked /\ Strip(main_message) # <<>>)
              => /\ result[1] = Alone(main_message)
                 /\ exit_code = (IF result[1].is_valid THEN 0 ELSE 1)

\* a valid message with warnings, read from standard input, exited with 0
C9_Witness ==
    /\ main_pc = "exited"
    /\ ~HelpAsked
    /\ ~stdin_tty
    /\ main_message = stdin_data
    /\ result[1].is_valid
    /\ result[1].warnings # <<>>
    /\ exit_code = 0

\* the one error and the only warning a failed format check leaves
OnlyFormatDiagnostics(errs, warns) ==
    /\ Len(errs) = 1
    /\ errs[1].kind \in {"Header too long", "Invalid header format"}
    /\ Kinds(warns) \subseteq {"Header long"}

\* C10: when the format check fails, the three later stages add nothing:
\* from line 210 to the return the lists hold the one format error and at
\* most the 'Header long' warning, and the call returns invalid; a blank
\* message returns exactly the 'cannot be empty' error and no warning.
C10_ShortCircuit ==
    /\ (/\ pc[1] \in {"L210", "L211", "L212", "L214"}
        /\ FormatFails(message[1]))
          => /\ ~format_ok[1]
             /\ OnlyFormatDiagnostics(errors[1], warnings[1])
    /\ (Done(1) /\ ~IsBlank(message[1]) /\ FormatFails(message[1]))
          => /\ ~result[1].is_valid
             /\ OnlyFormatDiagnostics(result[1].errors, result[1].warnings)
    /\ (Done(1) /\ IsBlank(message[1]))
          => result[1] = Triple(FALSE, <<ErrEmpty>>, <<>>)

\* a message whose header fails the pattern, is long enough for the warning
\* and has no blank line before its body returned one error and one warning
C10_Witness ==
    /\ Done(1)
    /\ ~FormatPatternMatches(Header(message[1]))
    /\ ~ProperSeparation(message[1])
    /\ Len(result[1].errors) = 1
    /\ Kinds(result[1].warnings) = {"Header long"}


\* s reads (scope)?!? : an optional parenthesised scope, an optional '!'
ScopeAndBang(s) ==
    LET t == IF EndsWith(s, "!") THEN SubSeq(s, 1, Len(s) - 1) ELSE s
    IN  \/ t = <<>>
        \/ /\ Len(t) >= 3
           /\ t[1] = "("
           /\ t[Len(t)] = ")"
           /\ \A j \in 2..(Len(t) - 1) : ClassScope(t[j])

\* h reads type(scope)?!?: and then nothing but whitespace, the type one of
\* the 14 in any letter case
EmptyDescriptionHeader(h) ==
    \E n \in 1..Len(h), c \in 2..(Len(h) - 1) :
        /\ n < c
        /\ Lower(SubSeq(h, 1, n)) \in VALID_TYPES
        /\ ScopeAndBang(SubSeq(h, n + 1, c - 1))
        /\ h[c] = ":"
        /\ h[c + 1] = " "
        /\ Strip(SubSeq(h, c + 2, Len(h))) = <<>>

\* C11 as claimed: a message whose header has a valid type, an optional
\* scope, an optional '!' and ': ' followed by nothing or by whitespace only
\* is invalid, whether or not body lines follow.
C11_AsClaimed ==
    (Done(1) /\ EmptyDescriptionHeader(Header(message[1])))
        => ~result[1].is_valid

\* h starts with one of the 14 types, in any letter case
HasType(h) == \E n \in 1..Len(h) : Lower(SubSeq(h, 1, n)) \in VALID_TYPES

\* the length of that type (no type is the start of another)
TypeLen(h) == CHOOSE n \in 1..Len(h) : Lower(SubSeq(h, 1, n)) \in VALID_TYPES

\* where the parenthesis opened right after the type closes, 0 if there is
\* no such parenthesis
ScopeClose(h) ==
    LET n == TypeLen(h)
        closes == {q \in (n + 2)..Len(h) : h[q] = ")"}
    IN  IF ~HasAt(h, <<"(">>, n) \/ closes = {} THEN 0
        ELSE CHOOSE q \in closes : \A r \in closes : q <= r

\* h reads type(scope) and then !?: and at least one more character, the
\* scope any text without ')'
ScopedHeader(h) ==
    /\ HasType(h)
    /\ ScopeClose(h) > 0
    /\ LET rest == SubSeq(h, ScopeClose(h) + 1, Len(h))
       IN  \/ HasAt(rest, <<":", " ">>, 0) /\ Len(rest) >= 3
           \/ HasAt(rest, <<"!", ":", " ">>, 0) /\ Len(rest) >= 4

\* the text between the parentheses
ScopeText(h) == SubSeq(h, TypeLen(h) + 2, ScopeClose(h) - 1)

\* the characters a scope may hold: the letters a-z in either case, '-',
\* and the four characters that fold to an ASCII letter
ScopeChars ==
    LowerSet \cup UpperSet \cup {"-", DOTTED_I, DOTLESS_I, LONG_S, KELVIN_SIGN}

HasInvalidHeaderFormat(errs) == "Invalid header format" \in Kinds(errs)

\* C12 as claimed: a header of at most 72 characters whose parenthesised
\* scope is empty or holds an uppercase letter fails the format check with
\* an 'Invalid header format' error.
C12_AsClaimed ==
    (/\ Done(1)
     /\ Len(Header(message[1])) <= HEADER_MAX
     /\ ScopedHeader(Header(message[1]))
     /\ \/ ScopeText(Header(message[1])) = <<>>
        \/ \E c \in Range(ScopeText(Header(message[1]))) : c \in UpperSet)
        => HasInvalidHeaderFormat(result[1].errors)

\* C12 amended: the whole header pattern is matched case-insensitively.  The
\* type may be written in any letter case and is lowercased before lookup
\* (no 'Invalid type' error); the format check accepts a scope exactly when
\* it is a non-empty string of the characters [a-z-] matches under
\* re.IGNORECASE, uppercase letters included, and rejects the header with
\* 'Invalid header format' otherwise; an accepted scope is looked up as
\* written, so one that is not in VALID_SCOPES gets the 'Unknown scope'
\* warning.
C12_ScopeAnyCase ==
    (/\ Done(1)
     /\ Len(Header(message[1])) <= HEADER_MAX
     /\ ScopedHeader(Header(message[1])))
        => LET scope == ScopeText(Header(message[1]))
               ok == scope # <<>> /\ Range(scope) \subseteq ScopeChars
           IN  /\ HasInvalidHeaderFormat(result[1].errors) <=> ~ok
               /\ "Invalid type" \notin Kinds(result[1].errors)
               /\ (ok /\ scope \notin VALID_SCOPES)
                     => WarnUnknownScope(scope) \in Range(result[1].warnings)
               /\ (ok /\ scope \in VALID_SCOPES)
                     => "Unknown scope" \notin Kinds(result[1].warnings)

\* a header with an uppercase type and an uppercase scope passed the format
\* check, and the call returned valid with the 'Unknown scope' warning
C12_Witness ==
    /\ Done(1)
    /\ ScopedHeader(Header(message[1]))
    /\ \E c \in Range(ScopeText(Header(message[1]))) : c \in UpperSet
    /\ Header(message[1])[1] \in UpperSet
    /\ Lower(ScopeText(Header(message[1]))) \in VALID_SCOPES
    /\ WarnUnknownScope(ScopeText(Header(message[1]))) \in Range(result[1].warnings)
    /\ result[1].is_valid

\* the text after the first ': ' of h, trimmed
DescriptionText(h) == Strip(SubSeq(h, Find(h, <<":", " ">>) + 3, Len(h)))

\* the seven descriptions that are too vague
VagueDescriptions ==
    { <<"f", "i", "x">>, <<"u", "p", "d", "a", "t", "e">>, <<"c", "h", "a", "n", "g", "e">>, <<"m", "o", "d", "i", "f", "y">>, <<"i", "m", "p", "r", "o", "v", "e">>, <<"r", "e", "f", "a", "c", "t", "o", "r">>,
      <<"c", "l", "e", "a", "n", "u", "p">> }

\* C13: when the header passes the format check, the 'too vague' warning is
\* in the returned warnings exactly when the description, trimmed and
\* lowercased, is one of the seven vague words; it is never among the
\* errors, and the content-quality stage leaves self.errors as it found it
\* and returns True, so the warning does not change is_valid.
C13_VagueExactMatch ==
    /\ []((Done(1) /\ format_ok[1])
             => /\ "too vague" \in Kinds(result[1].warnings)
                   <=> Lower(DescriptionText(Header(message[1]))) \in VagueDescriptions
                /\ "too vague" \notin Kinds(result[1].errors))
    /\ [][(pc[1] = "L212" /\ format_ok[1])
             => /\ errors' = errors
                /\ quality_ok'[1]]_vars

\* a one-word description written with a capital was flagged as too vague
\* and the message was found valid
C13_Witness ==
    /\ Done(1)
    /\ format_ok[1]
    /\ DescriptionText(Header(message[1])) \notin VagueDescriptions
    /\ WarnTooVague(DescriptionText(Header(message[1]))) \in Range(result[1].warnings)
    /\ result[1].is_valid

\* the fixed texts of the entries of a list, in order
KindSeq(seq) == [i \in 1..Len(seq) |-> seq[i].kind]

\* C14 as claimed: the returned errors list never holds more than one entry,
\* 'Invalid type' and 'Description cannot be empty' are never in it, and
\* after a passed format check it can hold the blank-line error only.
C14_AsClaimed ==
    Done(1) =>
        /\ Len(result[1].errors) <= 1
        /\ "Invalid type" \notin Kinds(result[1].errors)
        /\ "Description cannot be empty" \notin Kinds(result[1].errors)
        /\ format_ok[1] => Kinds(result[1].errors) \subseteq {ErrBlankLine.kind}

\* C14 amended: the returned errors list holds at most two entries.  A
\* failed format check leaves exactly one; after a passed format check the
\* list is empty or holds 'Invalid type', the blank-line error, or both in
\* this order.  'Description cannot be empty' is never in it, and 'Invalid
\* type' only for a header that starts with none of the 14 types in any
\* letter case (the pattern matched a type spelled with a non-ASCII letter).
C14_AtMostTwoErrors ==
    Done(1) =>
        /\ Len(result[1].errors) <= 2
        /\ "Description cannot be empty" \notin Kinds(result[1].errors)
        /\ ~format_ok[1] => Len(result[1].errors) = 1
        /\ format_ok[1] =>
              KindSeq(result[1].errors) \in
                  { <<>>, <<"Invalid type">>, <<ErrBlankLine.kind>>,
                    <<"Invalid type", ErrBlankLine.kind>> }
        /\ "Invalid type" \in Kinds(result[1].errors)
              => ~HasType(Header(message[1]))

\* a header whose type is spelled with a non-ASCII letter, followed by a
\* non-blank second line, returned two errors
C14_Witness ==
    /\ Done(1)
    /\ format_ok[1]
    /\ KindSeq(result[1].errors) = <<"Invalid type", ErrBlankLine.kind>>
    /\ ~result[1].is_valid
=============================================================================
